---- MODULE Spec2Model ----
(***************************************************************************)
(* A model of octopod, an integration-test engine for containerised        *)
(* applications: engine construction (Octopod::init), the suite runner     *)
(* (Octopod::run, TestSuite::run, TestSuite::instantiate_app), the backend *)
(* driver calls it issues (Driver::network, Driver::service), the resource *)
(* ledger (Resources), the reporter (Emitter, LogLine) and the log tasks   *)
(* of the services (Driver::logs, App::logs).                              *)
(*                                                                         *)
(* Spec is the engine on services that log nothing; SpecLogs adds the log  *)
(* tasks, on one test of one application; SpecLogsFair and SpecTerm are    *)
(* SpecLogs under fair scheduling of the select loop and of every step;    *)
(* SpecEmitter is the reporter on any results; SpecColor is the colour of  *)
(* the name of a log line.                                                 *)
(***************************************************************************)
EXTENDS Integers, Sequences, FiniteSets, TLC

\* ------------------------------------------------------------------ bounds

\* The longest list of test declarations the inventory holds.
MaxTests == 2
\* The number of services of application "a1" (application "a2" has none).
MaxServices == 2
\* The longest sequence of emit calls of the reporter-only specification.
MaxEmits == 4
\* The longest service name whose colour is computed.
MaxNameLen == 3
\* The most chunks the log streams of the containers of a test yield together.
MaxLogs == 3

\* The application names a declaration or a configuration may use.
AppNames == {"a1", "a2"}
\* The string payloads a test unit may panic with.
Msgs == {"boom"}

\* ---------------------------------------------------------- configuration

\* AppConfig.services of the application called app: "a1" has MaxServices
\* services, named 1..MaxServices, the odd ones configured with a health-check
\* target (ServiceConfig::health); "a2" has no service.
ServicesOf(app) ==
    IF app = "a1"
    THEN [k \in 1..MaxServices |-> [name |-> k, health |-> (k % 2 = 1)]]
    ELSE << >>

\* What the test macro submits to the inventory: the name, the application and
\* the ignore flag of a test (names are the positions in the inventory).
TestDecl == [app : AppNames, ignore : BOOLEAN]

DeclLists == UNION {[1..n -> TestDecl] : n \in 0..MaxTests}

\* The orders in which a HashMap of the applications in S may be iterated.
Orders(S) ==
    {o \in [1..Cardinality(S) -> S] : \A i, j \in DOMAIN o : o[i] = o[j] => i = j}

\* ------------------------------------------------------------- pure parts

RECURSIVE Reverse(_)
Reverse(s) == IF s = << >> THEN << >> ELSE Append(Reverse(Tail(s)), Head(s))

\* Resources::register: the ledger with resource r pushed.
register(rs, r) == Append(rs, r)

ForwardOrder(rs) == rs
\* Resources::cleanup: the order in which the ledger is walked,
\* self.resources.into_iter().rev().
CleanupOrder(rs) == Reverse(rs)

StopOnError(q, ok) == IF ok THEN Tail(q) ELSE << >>
RetryOnError(q, ok) == IF ok THEN Tail(q) ELSE q
\* Resources::cleanup: what is left to free after the head of q was freed with
\* result ok; an Err is printed and the loop goes on.
CleanupRest(q, ok) == Tail(q)

\* The resources of the backend: a network, or a container of a network.
NetworkOf(t) == [kind |-> "net", test |-> t, svc |-> 0]
ContainerOf(t, k) == [kind |-> "svc", test |-> t, svc |-> k]

\* The ways a spawned test unit ends, as the JoinHandle reports them: Ok, or a
\* JoinError holding a panic whose payload is a &str, a String or something else.
JoinResults ==
    {[kind |-> "Ok", payload |-> "none", msg |-> ""]}
    \cup {[kind |-> "Panic", payload |-> p, msg |-> m] : p \in {"str", "String"}, m \in Msgs}
    \cup {[kind |-> "Panic", payload |-> "other", msg |-> ""]}

NoMessage == "task panicked with no message"
Cancelled == "task was cancelled"

AlwaysNoMessage(res) == NoMessage
\* TestSuite::run: the message of a JoinError.
PanicMessage(res) ==
    IF res.kind = "Panic"
    THEN IF res.payload = "str" THEN res.msg
         ELSE IF res.payload = "String" THEN res.msg
         ELSE NoMessage
    ELSE Cancelled

\* TestResult::pass, TestResult::fail, TestResult::ignore.
pass(name) == [name |-> name, outcome |-> "Pass", output |-> ""]
fail(name, e) == [name |-> name, outcome |-> "Fail", output |-> e]
ignore(name) == [name |-> name, outcome |-> "Ignore", output |-> ""]

SwappedArms(name, res) ==
    IF res.kind = "Ok" THEN fail(name, PanicMessage(res)) ELSE pass(name)
\* TestSuite::run: the TestResult of a test whose unit ended with res.
ResultOf(name, res) ==
    IF res.kind = "Ok" THEN pass(name) ELSE fail(name, PanicMessage(res))

RetainAll(rs, all, result) == Append(rs, result)
\* Emitter::emit: the retained results after result is emitted.
emit(rs, all, result) ==
    IF result.outcome = "Pass"
    THEN IF all THEN Append(rs, result) ELSE rs
    ELSE Append(rs, result)

\* A line Drop for Emitter prints: the header of a result ("=== Test ok",
\* "=== Test failure"), the output of a failure, the "Logs:" line of a result
\* that holds logs, or a "test result:" line with its status and counts.
Line(l, n, st, p, g, f) ==
    [line |-> l, name |-> n, status |-> st, passed |-> p, ignored |-> g, failed |-> f]

\* Drop for Emitter, from the i-th retained result on, with the counts so far:
\* the "test result:" line is printed in the body of the loop over the retained
\* results, with the counts as they are after that result.
RECURSIVE DropFrom(_, _, _, _, _)
DropFrom(rs, i, passed, ignored, failed) ==
    IF i > Len(rs)
    THEN << >>
    ELSE LET r == rs[i]
             p == IF r.outcome = "Pass" THEN passed + 1 ELSE passed
             g == IF r.outcome = "Ignore" THEN ignored + 1 ELSE ignored
             f == IF r.outcome = "Fail" THEN failed + 1 ELSE failed
             header ==
                 IF r.outcome = "Pass"
                 THEN << Line("test_ok", r.name, "", 0, 0, 0) >>
                 ELSE IF r.outcome = "Fail"
                 THEN << Line("test_failure", r.name, "", 0, 0, 0),
                         Line("output", r.name, r.output, 0, 0, 0) >>
                 ELSE << >>
             logLines ==
                 IF r.outcome = "Ignore"
                 THEN << >>
                 ELSE << Line("logs", r.name, "", 0, 0, 0) >>
             summary ==
                 Line("test_result", 0, IF f = 0 THEN "ok" ELSE "failure", p, g, f)
         IN  header \o logLines \o << summary >> \o DropFrom(rs, i + 1, p, g, f)

\* Drop for Emitter: everything it prints for the retained results rs.
drop(rs) == DropFrom(rs, 1, 0, 0, 0)

\* A u32 is held as its two 16-bit halves, << high, low >>.
Half == 65536
\* h << 5 multiplies by 2^5.
Shl5 == 32
\* h & 0xf8000000 keeps the five bits from 2^27 up, which are the bits of the
\* high half from 2^11 up; >> 27 brings them down to the bits below 2^5.
HighOrder == 2048
\* One byte.
Byte == 256

\* Bitwise exclusive or of two naturals.
RECURSIVE Xor(_, _)
Xor(a, b) ==
    IF a = 0 THEN b
    ELSE IF b = 0 THEN a
    ELSE (((a % 2) + (b % 2)) % 2) + 2 * Xor(a \div 2, b \div 2)

\* One turn of the fold of name_color on the hash h and the character c.
HashStep(h, c) ==
    LET highorder == h[1] \div HighOrder
        hi1 == ((h[1] * Shl5) % Half) + ((h[2] * Shl5) \div Half)
        lo1 == (h[2] * Shl5) % Half
        lo2 == Xor(lo1, highorder)
    IN  << Xor(hi1, c \div Half), Xor(lo2, c % Half) >>

\* self.name.chars().fold(0u32, ...) on the first n characters of name.
RECURSIVE Fold(_, _)
Fold(name, n) ==
    IF n = 0 THEN << 0, 0 >> ELSE HashStep(Fold(name, n - 1), name[n])

\* h.to_be_bytes(): the four bytes of h, the most significant first.
to_be_bytes(h) ==
    << h[1] \div Byte, h[1] % Byte, h[2] \div Byte, h[2] % Byte >>

\* LogLine::name_color: color::Rgb of the first three bytes of the hash.
name_color(name) ==
    LET bytes == to_be_bytes(Fold(name, Len(name)))
    IN  << bytes[1], bytes[2], bytes[3] >>

SkipTest(ti) == [pc |-> "test_loop", testIdx |-> ti + 1]
\* TestSuite::run: `?` on instantiate_app returns the error from the suite.
OnProvisionErr(ti) == [pc |-> "suite_ret", testIdx |-> ti]

PushFront(ss, app, t) ==
    [a \in DOMAIN ss |-> IF a = app THEN << t >> \o ss[a] ELSE ss[a]]
\* Octopod::init: the test t pushed to the tests of the suite of app.
PushTest(ss, app, t) ==
    [a \in DOMAIN ss |-> IF a = app THEN Append(ss[a], t) ELSE ss[a]]

\* Driver::logs: the LogLine of the n-th chunk of the log stream of the
\* container of service k (the line is named after the service).
LogLine(k, n) == [name |-> k, data |-> n]

SendFront(q, line) == << line >> \o q
\* Driver::logs: snd.send(line) on the unbounded channel q of a service.
send(q, line) == Append(q, line)

AlwaysReady(u) == TRUE
\* select!, the branch `res = &mut test_fut`: the JoinHandle of the unit u is
\* ready when the unit has ended.
Joined(u) == u.st = "finished"

OnlyFirst(ch, k) == k = 1 /\ ch[k] # << >>
\* App::logs: the SelectAll of the receivers of all the services yields from
\* the receiver of service k when a line is queued in it.
Yields(ch, k) == ch[k] # << >>

SkipsLast(k, configs) == k >= Len(configs)
\* TestSuite::instantiate_app: the loop over self.app.services, which is at
\* the k-th configuration, has gone through all of them.
AllInstantiated(k, configs) == k > Len(configs)

ReturnOnErr(i, n, res) == IF res = "Err" THEN n + 1 ELSE i + 1
\* Octopod::run: the suite the loop over the n suites goes to after the i-th,
\* which returned res: an Err is printed and the loop goes on.
AfterSuite(i, n, res) == i + 1

AnySuite(ss, app) == TRUE
\* Octopod::init: suites.get_mut(decl.app) is Some.
HasSuite(ss, app) == app \in DOMAIN ss

\* ------------------------------------------------------------------ state

VARIABLES
    decls,        \* the inventory: the test declarations, in discovery order
    apps,         \* the application names handed to Octopod::init
    pc,           \* where the engine is
    suites,       \* Octopod.suites: application name -> tests (declaration names)
    declIdx,      \* Octopod::init: the declaration the loop is at
    initErr,      \* the error Octopod::init returned, if any
    suiteOrder,   \* the order of suites.into_values()
    suiteIdx,     \* Octopod::run: the suite the loop is at
    testIdx,      \* TestSuite::run: the test the loop is at
    svcIdx,       \* instantiate_app: the service the loop is at
    appServices,  \* instantiate_app: the names inserted in App.services
    resources,    \* the ledger of the running suite (Resources.resources)
    cleanupQ,     \* Resources::cleanup: what the loop has still to free
    created,      \* the backend: the networks and containers ever created
    reported,     \* Resources::cleanup: the teardown errors it has printed
    unit,         \* the spawned test unit and, once it ended, its JoinResult
    results,      \* Emitter.results
    log_all,      \* Emitter.log_all
    suiteResult,  \* what TestSuite::run returned to Octopod::run
    runResult,    \* what Octopod::run returned
    trace,        \* what the engine did, in order: backend calls, spawns, output
    printed,      \* what Drop for Emitter printed
    names,        \* LogLine.name of the two lines Display renders
    colors,       \* the colours name_color picked for them
    stream,       \* Driver::logs: per service, the chunks read and the task state
    chan,         \* Driver::logs: per service, the lines sent and not yet received
    logs,         \* TestSuite::run: the log buffer of the running test
    attached      \* TestResult.logs of the results emitted, in order

vars ==
    << decls, apps, pc, suites, declIdx, initErr, suiteOrder, suiteIdx, testIdx,
       svcIdx, appServices, resources, cleanupQ, created, reported, unit,
       results, log_all, suiteResult, runResult, trace, printed, names, colors,
       stream, chan, logs, attached >>

colorVars == << names, colors >>
logVars == << stream, chan, logs, attached >>

NoJoin == [kind |-> "none", payload |-> "none", msg |-> ""]
NoResult == [name |-> 0, outcome |-> "none", output |-> ""]
NoErr == [kind |-> "none", app |-> "", test |-> 0]

\* An entry of the trace: event e of test t (0: none) and service k (0: none),
\* with the result ok of a backend call.
Ev(e, t, k, ok) ==
    [ev |-> e, test |-> t, svc |-> k, ok |-> ok, join |-> NoJoin, res |-> NoResult]

\* The JoinHandle of the unit of test t resolved to r.
JoinEv(t, r) ==
    [ev |-> "join", test |-> t, svc |-> 0, ok |-> (r.kind = "Ok"), join |-> r,
     res |-> NoResult]

\* Emitter::emit prints one line for the result.
EmitEv(result) ==
    [ev |-> "emit", test |-> result.name, svc |-> 0, ok |-> TRUE, join |-> NoJoin,
     res |-> result]

\* The suite Octopod::run is at, its application and its tests.
CurApp == suiteOrder[suiteIdx]
CurTests == suites[CurApp]
CurTest == CurTests[testIdx]
CurServices == ServicesOf(CurApp)

engineVars ==
    << suites, declIdx, initErr, suiteOrder, suiteIdx, testIdx, svcIdx,
       appServices, resources, cleanupQ, created, reported, unit,
       suiteResult, runResult >>

Init ==
    /\ decls \in DeclLists
    /\ apps \in SUBSET AppNames
    /\ pc = "start"
    /\ suites = << >>
    /\ declIdx = 1
    /\ initErr = NoErr
    /\ suiteOrder = << >>
    /\ suiteIdx = 1
    /\ testIdx = 1
    /\ svcIdx = 1
    /\ appServices = {}
    /\ resources = << >>
    /\ cleanupQ = << >>
    /\ created = {}
    /\ reported = 0
    /\ unit = [st |-> "none", res |-> NoJoin]
    /\ results = << >>
    /\ log_all = FALSE
    /\ suiteResult = "none"
    /\ runResult = "none"
    /\ trace = << >>
    /\ printed = << >>
    /\ names = << >>
    /\ colors = << >>
    /\ stream = << >>
    /\ chan = << >>
    /\ logs = << >>
    /\ attached = << >>

\* ------------------------------------------------------------ Octopod::init

\* One suite per supplied application, with no test yet.
InitSuites ==
    /\ pc = "start"
    /\ suites' = [a \in apps |-> << >>]
    /\ declIdx' = 1
    /\ pc' = "decls"
    /\ UNCHANGED << decls, apps, initErr, suiteOrder, suiteIdx, testIdx, svcIdx,
                    appServices, resources, cleanupQ, created, reported, unit, results,
                    log_all, suiteResult, runResult, trace >>
    /\ UNCHANGED << printed, colorVars, logVars >>

\* One declaration of the inventory: its test is pushed to the suite of its
\* application, or init returns "unknown app `..` in test `..`".
InitDecl ==
    /\ pc = "decls"
    /\ declIdx <= Len(decls)
    /\ IF HasSuite(suites, decls[declIdx].app)
       THEN /\ suites' = PushTest(suites, decls[declIdx].app, declIdx)
            /\ declIdx' = declIdx + 1
            /\ UNCHANGED << pc, initErr >>
       ELSE /\ pc' = "init_err"
            /\ initErr' = [kind |-> "unknown_app", app |-> decls[declIdx].app,
                           test |-> declIdx]
            /\ UNCHANGED << suites, declIdx >>
    /\ UNCHANGED << decls, apps, suiteOrder, suiteIdx, testIdx, svcIdx,
                    appServices, resources, cleanupQ, created, reported, unit, results,
                    log_all, suiteResult, runResult, trace >>
    /\ UNCHANGED << printed, colorVars, logVars >>

\* After the last declaration: the suites are collected in the map's order, the
\* driver is made (Podman::new may reject the address) and the emitter with it.
InitFinish ==
    /\ pc = "decls"
    /\ declIdx > Len(decls)
    /\ \E order \in Orders(DOMAIN suites), ok \in BOOLEAN :
          /\ suiteOrder' = order
          /\ trace' = Append(trace, Ev("podman_new", 0, 0, ok))
          /\ IF ok
             THEN pc' = "built" /\ UNCHANGED initErr
             ELSE pc' = "init_err" /\ initErr' = [NoErr EXCEPT !.kind = "driver"]
    /\ results' = << >>
    /\ log_all' = FALSE
    /\ UNCHANGED << decls, apps, suites, declIdx, suiteIdx, testIdx, svcIdx,
                    appServices, resources, cleanupQ, created, reported, unit, suiteResult,
                    runResult >>
    /\ UNCHANGED << printed, colorVars, logVars >>

\* Octopod::log_all, on the engine init returned.
LogAll ==
    /\ pc = "built"
    /\ log_all' = TRUE
    /\ UNCHANGED << decls, apps, pc, results, trace >>
    /\ UNCHANGED engineVars
    /\ UNCHANGED << printed, colorVars, logVars >>

\* ------------------------------------------------------------- Octopod::run

RunBegin ==
    /\ pc = "built"
    /\ suiteIdx' = 1
    /\ pc' = "suite_loop"
    /\ UNCHANGED << decls, apps, suites, declIdx, initErr, suiteOrder, testIdx,
                    svcIdx, appServices, resources, cleanupQ, created, reported, unit,
                    results, log_all, suiteResult, runResult, trace >>
    /\ UNCHANGED << printed, colorVars, logVars >>

\* The next suite starts on a ledger of its own, Resources::default().
SuiteBegin ==
    /\ pc = "suite_loop"
    /\ suiteIdx <= Len(suiteOrder)
    /\ resources' = << >>
    /\ testIdx' = 1
    /\ suiteResult' = "none"
    /\ pc' = "test_loop"
    /\ UNCHANGED << decls, apps, suites, declIdx, initErr, suiteOrder, suiteIdx,
                    svcIdx, appServices, cleanupQ, created, reported, unit, results, log_all,
                    runResult, trace >>
    /\ UNCHANGED << printed, colorVars, logVars >>

\* After the last suite run returns Ok(()).
RunEnd ==
    /\ pc = "suite_loop"
    /\ suiteIdx > Len(suiteOrder)
    /\ runResult' = "Ok"
    /\ pc' = "done"
    /\ UNCHANGED << decls, apps, suites, declIdx, initErr, suiteOrder, suiteIdx,
                    testIdx, svcIdx, appServices, resources, cleanupQ, created, reported,
                    unit, results, log_all, suiteResult, trace >>
    /\ printed' = drop(results)
    /\ UNCHANGED << colorVars, logVars >>

\* ----------------------------------------------------------- TestSuite::run

\* The next test: instantiate_app calls Driver::network, which creates a
\* network on the backend and registers it, or returns the backend's error.
TestBegin ==
    /\ pc = "test_loop"
    /\ testIdx <= Len(CurTests)
    /\ \E ok \in BOOLEAN :
          /\ trace' = Append(trace, Ev("net_create", CurTest, 0, ok))
          /\ IF ok
             THEN /\ created' = created \cup {NetworkOf(CurTest)}
                  /\ resources' = register(resources, NetworkOf(CurTest))
                  /\ svcIdx' = 1
                  /\ appServices' = {}
                  /\ pc' = "services"
                  /\ UNCHANGED << testIdx, suiteResult >>
             ELSE /\ pc' = OnProvisionErr(testIdx).pc
                  /\ testIdx' = OnProvisionErr(testIdx).testIdx
                  /\ suiteResult' = "Err"
                  /\ UNCHANGED << created, resources, svcIdx, appServices >>
    /\ UNCHANGED << decls, apps, suites, declIdx, initErr, suiteOrder, suiteIdx,
                    cleanupQ, reported, unit, results, log_all, runResult >>
    /\ UNCHANGED << printed, colorVars, logVars >>

\* Driver::service, its first backend call: containers().create.
ServiceCreate ==
    /\ pc = "services"
    /\ ~AllInstantiated(svcIdx, CurServices)
    /\ \E ok \in BOOLEAN :
          /\ trace' = Append(trace, Ev("svc_create", CurTest, svcIdx, ok))
          /\ IF ok
             THEN /\ created' = created \cup {ContainerOf(CurTest, svcIdx)}
                  /\ pc' = "svc_start"
                  /\ UNCHANGED << testIdx, suiteResult >>
             ELSE /\ pc' = OnProvisionErr(testIdx).pc
                  /\ testIdx' = OnProvisionErr(testIdx).testIdx
                  /\ suiteResult' = "Err"
                  /\ UNCHANGED created
    /\ UNCHANGED << decls, apps, suites, declIdx, initErr, suiteOrder, suiteIdx,
                    svcIdx, appServices, resources, cleanupQ, reported, unit,
                    results, log_all, runResult >>
    /\ UNCHANGED << printed, colorVars, logVars >>

\* Driver::service, its second backend call: container.start, after which the
\* service is registered and instantiate_app inserts it in App.services.
ServiceStart ==
    /\ pc = "svc_start"
    /\ \E ok \in BOOLEAN :
          /\ trace' = Append(trace, Ev("svc_start", CurTest, svcIdx, ok))
          /\ IF ok
             THEN /\ resources' = register(resources, ContainerOf(CurTest, svcIdx))
                  /\ appServices' = appServices \cup {CurServices[svcIdx].name}
                  /\ svcIdx' = svcIdx + 1
                  /\ pc' = "services"
                  /\ UNCHANGED << testIdx, suiteResult >>
             ELSE /\ pc' = OnProvisionErr(testIdx).pc
                  /\ testIdx' = OnProvisionErr(testIdx).testIdx
                  /\ suiteResult' = "Err"
                  /\ UNCHANGED << resources, appServices, svcIdx >>
    /\ UNCHANGED << decls, apps, suites, declIdx, initErr, suiteOrder, suiteIdx,
                    cleanupQ, created, reported, unit, results, log_all, runResult >>
    /\ UNCHANGED << printed, colorVars, logVars >>

\* instantiate_app returned the App: App::logs starts a log task and a channel
\* per service of the App, and the test unit is spawned on the App.
Spawn ==
    /\ pc = "services"
    /\ AllInstantiated(svcIdx, CurServices)
    /\ unit' = [st |-> "running", res |-> NoJoin]
    /\ trace' = Append(trace, Ev("spawn", CurTest, 0, TRUE))
    /\ pc' = "select"
    /\ stream' = [k \in appServices |-> [n |-> 0, open |-> TRUE]]
    /\ chan' = [k \in appServices |-> << >>]
    /\ logs' = << >>
    /\ UNCHANGED << decls, apps, suites, declIdx, initErr, suiteOrder, suiteIdx,
                    testIdx, svcIdx, appServices, resources, cleanupQ, created, reported,
                    results, log_all, suiteResult, runResult >>
    /\ UNCHANGED << printed, colorVars, attached >>

\* The test unit, a task of its own, ends: it returns or it panics.
UnitEnds ==
    /\ unit.st = "running"
    /\ \E r \in JoinResults : unit' = [st |-> "finished", res |-> r]
    /\ UNCHANGED << decls, apps, pc, suites, declIdx, initErr, suiteOrder,
                    suiteIdx, testIdx, svcIdx, appServices, resources, cleanupQ,
                    created, reported, results, log_all, suiteResult, runResult, trace >>
    /\ UNCHANGED << printed, colorVars, logVars >>

\* select!, the branch of the JoinHandle: the result is built with the log
\* buffer and emitted, and the loop of the test is left for the next test, which
\* drops the log stream and the lines still queued in it.
SelectUnit ==
    /\ pc = "select"
    /\ Joined(unit)
    /\ results' = emit(results, log_all, ResultOf(CurTest, unit.res))
    /\ trace' = trace \o << JoinEv(CurTest, unit.res),
                           EmitEv(ResultOf(CurTest, unit.res)) >>
    /\ unit' = [st |-> "none", res |-> NoJoin]
    /\ testIdx' = testIdx + 1
    /\ pc' = "test_loop"
    /\ attached' = Append(attached, [name |-> CurTest, logs |-> logs])
    /\ logs' = << >>
    /\ chan' = [k \in DOMAIN chan |-> << >>]
    /\ UNCHANGED << decls, apps, suites, declIdx, initErr, suiteOrder, suiteIdx,
                    svcIdx, appServices, resources, cleanupQ, created, reported, log_all,
                    suiteResult, runResult >>
    /\ UNCHANGED << printed, colorVars, stream >>

\* After the last test the suite returns Ok(()).
SuiteOk ==
    /\ pc = "test_loop"
    /\ testIdx > Len(CurTests)
    /\ suiteResult' = "Ok"
    /\ pc' = "suite_ret"
    /\ UNCHANGED << decls, apps, suites, declIdx, initErr, suiteOrder, suiteIdx,
                    testIdx, svcIdx, appServices, resources, cleanupQ, created, reported,
                    unit, results, log_all, runResult, trace >>
    /\ UNCHANGED << printed, colorVars, logVars >>

\* Octopod::run, after the suite returned: an Err is printed, and cleanup takes
\* the ledger.
SuiteReturn ==
    /\ pc = "suite_ret"
    /\ trace' = IF suiteResult = "Err"
                THEN Append(trace, Ev("suite_err", 0, 0, FALSE))
                ELSE trace
    /\ cleanupQ' = CleanupOrder(resources)
    /\ resources' = << >>
    /\ reported' = 0
    /\ pc' = "cleanup"
    /\ UNCHANGED << decls, apps, suites, declIdx, initErr, suiteOrder, suiteIdx,
                    testIdx, svcIdx, appServices, created, unit, results, log_all,
                    suiteResult, runResult >>
    /\ UNCHANGED << printed, colorVars, logVars >>

\* -------------------------------------------------------- Resources::cleanup

\* One turn of the loop: resource.free(driver), whose Err is printed.
CleanupStep ==
    /\ pc = "cleanup"
    /\ cleanupQ # << >>
    /\ \E ok \in BOOLEAN :
          /\ reported' = IF ok THEN reported ELSE reported + 1
          /\ cleanupQ' = CleanupRest(cleanupQ, ok)
    /\ trace' = Append(trace, Ev("free", Head(cleanupQ).test, Head(cleanupQ).svc, TRUE))
    /\ UNCHANGED << decls, apps, pc, suites, declIdx, initErr, suiteOrder,
                    suiteIdx, testIdx, svcIdx, appServices, resources, created,
                    unit, results, log_all, suiteResult, runResult >>
    /\ UNCHANGED << printed, colorVars, logVars >>

\* cleanup returns (), whatever it printed; Octopod::run goes to the next suite.
CleanupDone ==
    /\ pc = "cleanup"
    /\ cleanupQ = << >>
    /\ reported' = 0
    /\ suiteIdx' = AfterSuite(suiteIdx, Len(suiteOrder), suiteResult)
    /\ pc' = "suite_loop"
    /\ UNCHANGED << decls, apps, suites, declIdx, initErr, suiteOrder, testIdx,
                    svcIdx, appServices, resources, cleanupQ, created, unit,
                    results, log_all, suiteResult, runResult, trace >>
    /\ UNCHANGED << printed, colorVars, logVars >>

Next ==
    \/ InitSuites
    \/ InitDecl
    \/ InitFinish
    \/ LogAll
    \/ RunBegin
    \/ SuiteBegin
    \/ RunEnd
    \/ TestBegin
    \/ ServiceCreate
    \/ ServiceStart
    \/ Spawn
    \/ UnitEnds
    \/ SelectUnit
    \/ SuiteOk
    \/ SuiteReturn
    \/ CleanupStep
    \/ CleanupDone

Spec == Init /\ [][Next]_vars

\* ------------------------------------------------- the reporter on its own

\* The results a caller may hand to Emitter::emit.
TestResults ==
    {pass(n) : n \in 1..2} \cup {ignore(n) : n \in 1..2}
    \cup {fail(n, m) : n \in 1..2, m \in Msgs \cup {NoMessage}}

\* Emitter::new(log_all), with either setting.
InitEmitter ==
    /\ decls = << >>
    /\ apps = {}
    /\ pc = "emitter"
    /\ suites = << >>
    /\ declIdx = 1
    /\ initErr = NoErr
    /\ suiteOrder = << >>
    /\ suiteIdx = 1
    /\ testIdx = 1
    /\ svcIdx = 1
    /\ appServices = {}
    /\ resources = << >>
    /\ cleanupQ = << >>
    /\ created = {}
    /\ reported = 0
    /\ unit = [st |-> "none", res |-> NoJoin]
    /\ results = << >>
    /\ log_all \in BOOLEAN
    /\ suiteResult = "none"
    /\ runResult = "none"
    /\ trace = << >>
    /\ printed = << >>
    /\ names = << >>
    /\ colors = << >>
    /\ stream = << >>
    /\ chan = << >>
    /\ logs = << >>
    /\ attached = << >>

\* Emitter::emit on any result.
EmitCall ==
    /\ pc = "emitter"
    /\ Len(trace) < MaxEmits
    /\ \E r \in TestResults :
          /\ results' = emit(results, log_all, r)
          /\ trace' = Append(trace, EmitEv(r))
    /\ UNCHANGED << decls, apps, pc, log_all >>
    /\ UNCHANGED engineVars
    /\ UNCHANGED << printed, colorVars, logVars >>

\* The reporter goes out of scope: Drop for Emitter prints its report.
EmitterDrop ==
    /\ pc = "emitter"
    /\ printed' = drop(results)
    /\ pc' = "dropped"
    /\ UNCHANGED << decls, apps, results, log_all, trace >>
    /\ UNCHANGED engineVars
    /\ UNCHANGED << colorVars, logVars >>

NextEmitter == EmitCall \/ EmitterDrop

SpecEmitter == InitEmitter /\ [][NextEmitter]_vars

\* ------------------------------------------------------- the logs of a test

\* The chunks the log tasks of the services 1..k have read.
RECURSIVE ChunksUpTo(_)
ChunksUpTo(k) ==
    IF k = 0
    THEN 0
    ELSE ChunksUpTo(k - 1) + (IF k \in DOMAIN stream THEN stream[k].n ELSE 0)

Chunks == ChunksUpTo(MaxServices)

\* One application of MaxServices services and one test of it.
InitLogs ==
    /\ decls = << [app |-> "a1", ignore |-> FALSE] >>
    /\ apps = {"a1"}
    /\ pc = "start"
    /\ suites = << >>
    /\ declIdx = 1
    /\ initErr = NoErr
    /\ suiteOrder = << >>
    /\ suiteIdx = 1
    /\ testIdx = 1
    /\ svcIdx = 1
    /\ appServices = {}
    /\ resources = << >>
    /\ cleanupQ = << >>
    /\ created = {}
    /\ reported = 0
    /\ unit = [st |-> "none", res |-> NoJoin]
    /\ results = << >>
    /\ log_all = FALSE
    /\ suiteResult = "none"
    /\ runResult = "none"
    /\ trace = << >>
    /\ printed = << >>
    /\ names = << >>
    /\ colors = << >>
    /\ stream = << >>
    /\ chan = << >>
    /\ logs = << >>
    /\ attached = << >>

\* The log task of a service (Driver::logs) reads the next chunk of the log
\* stream of its container and sends it as a LogLine: to the channel while the
\* runner holds the log stream, in its loop; to a closed channel once the
\* runner has dropped it, and then send fails and the task leaves its loop.
LogChunk ==
    /\ Chunks < MaxLogs
    /\ \E k \in DOMAIN stream :
          /\ stream[k].open
          /\ IF pc = "select"
             THEN /\ stream' = [stream EXCEPT ![k].n = @ + 1]
                  /\ chan' = [chan EXCEPT ![k] = send(@, LogLine(k, stream[k].n + 1))]
             ELSE /\ stream' = [stream EXCEPT ![k] = [n |-> @.n + 1, open |-> FALSE]]
                  /\ chan' = chan
    /\ UNCHANGED << decls, apps, pc, results, log_all, trace, printed, logs, attached >>
    /\ UNCHANGED engineVars
    /\ UNCHANGED colorVars

\* The log task of a service ends: the log stream of the container ended, or a
\* chunk was an error or no UTF-8 and unwrap panicked.
LogTaskEnds ==
    /\ \E k \in DOMAIN stream :
          /\ stream[k].open
          /\ stream' = [stream EXCEPT ![k].open = FALSE]
    /\ UNCHANGED << decls, apps, pc, results, log_all, trace, printed, chan, logs,
                    attached >>
    /\ UNCHANGED engineVars
    /\ UNCHANGED colorVars

\* select!, the branch of the log stream: the merged stream yields a line of
\* some service, which is pushed to the log buffer, and the loop goes on.
SelectLog ==
    /\ pc = "select"
    /\ \E k \in DOMAIN chan :
          /\ Yields(chan, k)
          /\ logs' = Append(logs, Head(chan[k]))
          /\ chan' = [chan EXCEPT ![k] = Tail(@)]
    /\ UNCHANGED << decls, apps, pc, results, log_all, trace, printed, stream,
                    attached >>
    /\ UNCHANGED engineVars
    /\ UNCHANGED colorVars

NextLogs == Next \/ LogChunk \/ LogTaskEnds \/ SelectLog

SpecLogs == InitLogs /\ [][NextLogs]_vars

\* The runner is a task of the runtime, polled when a branch of its select! is
\* ready: a step of its loop that stays possible is taken.
SpecLogsFair == SpecLogs /\ WF_vars(SelectLog \/ SelectUnit)

\* One test of one application, the one with services or the one without.
TermDecls == {<< [app |-> a, ignore |-> FALSE] >> : a \in AppNames}

InitTerm ==
    /\ decls \in TermDecls
    /\ apps = {decls[1].app}
    /\ pc = "start"
    /\ suites = << >>
    /\ declIdx = 1
    /\ initErr = NoErr
    /\ suiteOrder = << >>
    /\ suiteIdx = 1
    /\ testIdx = 1
    /\ svcIdx = 1
    /\ appServices = {}
    /\ resources = << >>
    /\ cleanupQ = << >>
    /\ created = {}
    /\ reported = 0
    /\ unit = [st |-> "none", res |-> NoJoin]
    /\ results = << >>
    /\ log_all = FALSE
    /\ suiteResult = "none"
    /\ runResult = "none"
    /\ trace = << >>
    /\ printed = << >>
    /\ names = << >>
    /\ colors = << >>
    /\ stream = << >>
    /\ chan = << >>
    /\ logs = << >>
    /\ attached = << >>

\* The engine and the log tasks when the scheduling is fair, every backend
\* call returns and every test unit ends: a step of the engine or of the unit
\* that stays possible is taken.
SpecTerm == InitTerm /\ [][NextLogs]_vars /\ WF_vars(Next)

\* ------------------------------------------------- the colours of log lines

\* The characters of service names, as code points: "1", "a", "b".
Alphabet == {49, 97, 98}

\* The names of at most MaxNameLen characters.
Names == UNION {[1..n -> Alphabet] : n \in 0..MaxNameLen}

\* Two log lines with any names are to be displayed.
InitColor ==
    /\ decls = << >>
    /\ apps = {}
    /\ pc = "display"
    /\ suites = << >>
    /\ declIdx = 1
    /\ initErr = NoErr
    /\ suiteOrder = << >>
    /\ suiteIdx = 1
    /\ testIdx = 1
    /\ svcIdx = 1
    /\ appServices = {}
    /\ resources = << >>
    /\ cleanupQ = << >>
    /\ created = {}
    /\ reported = 0
    /\ unit = [st |-> "none", res |-> NoJoin]
    /\ results = << >>
    /\ log_all = FALSE
    /\ suiteResult = "none"
    /\ runResult = "none"
    /\ trace = << >>
    /\ printed = << >>
    /\ names \in Names \X Names
    /\ colors = << >>
    /\ stream = << >>
    /\ chan = << >>
    /\ logs = << >>
    /\ attached = << >>

\* Display for LogLine, on each of the two lines: name_color picks its colour.
Display ==
    /\ pc = "display"
    /\ colors' = << name_color(names[1]), name_color(names[2]) >>
    /\ pc' = "displayed"
    /\ UNCHANGED << decls, apps, results, log_all, trace, printed, names >>
    /\ UNCHANGED engineVars
    /\ UNCHANGED logVars

NextColor == Display

SpecColor == InitColor /\ [][NextColor]_vars

\* ------------------------------------------------------ reading the trace

Positions == 1..Len(trace)

ToSet(s) == {s[i] : i \in 1..Len(s)}

\* The position of x in the sequence s that holds it.
PosIn(s, x) == CHOOSE i \in 1..Len(s) : s[i] = x

AppOfTest(t) == decls[t].app

IsProvision(e) == e.ev \in {"net_create", "svc_create", "svc_start"}

\* The events of the suite runner that belong to one test.
IsTestEv(e) == IsProvision(e) \/ e.ev \in {"spawn", "join", "emit"}

ResOfEv(e) == IF e.svc = 0 THEN NetworkOf(e.test) ELSE ContainerOf(e.test, e.svc)

IsRegisterOf(a, e) ==
    /\ e.ev \in {"net_create", "svc_start"}
    /\ e.ok
    /\ AppOfTest(e.test) = a

IsFreeOf(a, e) == e.ev = "free" /\ AppOfTest(e.test) = a

\* The resources the suite of application a got from the backend and
\* registered, in that order, and those whose teardown was invoked.
Registered(a) ==
    LET evs == SelectSeq(trace, LAMBDA e : IsRegisterOf(a, e))
    IN  [i \in 1..Len(evs) |-> ResOfEv(evs[i])]

Freed(a) ==
    LET evs == SelectSeq(trace, LAMBDA e : IsFreeOf(a, e))
    IN  [i \in 1..Len(evs) |-> ResOfEv(evs[i])]

\* The results emitted, in order.
Emitted ==
    LET evs == SelectSeq(trace, LAMBDA e : e.ev = "emit")
    IN  [i \in 1..Len(evs) |-> evs[i].res]

\* Octopod::run is inside the suite of application a / is past it.
InSuite(a) ==
    /\ pc \in {"test_loop", "services", "svc_start", "select", "suite_ret", "cleanup"}
    /\ suiteOrder[suiteIdx] = a

PastSuite(a) ==
    /\ pc \in {"suite_loop", "test_loop", "services", "svc_start", "select",
               "suite_ret", "cleanup", "done"}
    /\ \E i \in 1..Len(suiteOrder) : suiteOrder[i] = a /\ i < suiteIdx

\* ------------------------------------------------------------------ claims

\* The suite whose cleanup() has just returned.
LastApp == suiteOrder[suiteIdx - 1]

\* C1: cleanup() invokes the teardown of every resource of the ledger whatever
\* teardowns failed before: while it runs, the resources freed so far and those
\* still to free are together the resources registered, however many errors it
\* has printed; when it has returned, to a caller that goes on to the next
\* suite, each registered resource had its teardown invoked once.
C1_CleanupAttemptsAll ==
    /\ pc = "cleanup" =>
          LET R == Registered(CurApp)
              F == Freed(CurApp)
          IN  /\ Len(F) + Len(cleanupQ) = Len(R)
              /\ ToSet(F) \cup ToSet(cleanupQ) = ToSet(R)
              /\ reported <= Len(F)
    /\ (pc = "suite_loop" /\ suiteIdx > 1) =>
          /\ Len(Freed(LastApp)) = Len(Registered(LastApp))
          /\ ToSet(Freed(LastApp)) = ToSet(Registered(LastApp))

\* C1 witness: cleanup() has gone through a ledger of three resources or more
\* and every teardown failed.
C1_Witness ==
    /\ pc = "cleanup"
    /\ cleanupQ = << >>
    /\ Len(Registered(CurApp)) >= 3
    /\ reported = Len(Freed(CurApp))
    /\ reported = Len(Registered(CurApp))

\* C2: cleanup() frees in strict reverse registration order: the p-th
\* teardown it invokes is that of the p-th resource from the end of the ledger,
\* so that of two resources the one registered later is freed first.
C2_ReverseOrder ==
    pc = "cleanup" =>
       LET R == Registered(CurApp)
           F == Freed(CurApp)
       IN  /\ Len(F) <= Len(R)
           /\ \A p \in 1..Len(F) : F[p] = R[Len(R) + 1 - p]

\* C2 witness: a ledger of two tests' resources was freed to its first entry,
\* the network of the first test.
C2_Witness ==
    /\ pc = "cleanup"
    /\ cleanupQ = << >>
    /\ Len(Freed(CurApp)) >= 4
    /\ Freed(CurApp)[Len(Freed(CurApp))] = Registered(CurApp)[1]
    /\ Registered(CurApp)[1].kind = "net"

\* C3: a failed network or service creation call while test i is provisioned
\* ends the suite: no later call, spawn or outcome of that suite follows, no
\* test from i on is run or gets an outcome, the error goes to Octopod::run,
\* which prints it, and cleanup() still frees every resource the suite registered.
C3_ProvisionErrorAborts ==
    \A p \in Positions :
       (IsProvision(trace[p]) /\ ~trace[p].ok) =>
          LET t == trace[p].test
              a == AppOfTest(t)
              i == PosIn(suites[a], t)
          IN  /\ \A q \in Positions :
                    (q > p /\ IsTestEv(trace[q])) => AppOfTest(trace[q].test) # a
              /\ \A q \in Positions :
                    (trace[q].ev \in {"spawn", "join", "emit"}
                        /\ AppOfTest(trace[q].test) = a)
                    => PosIn(suites[a], trace[q].test) < i
              /\ InSuite(a) =>
                    /\ pc \in {"suite_ret", "cleanup"}
                    /\ suiteResult = "Err"
              /\ (InSuite(a) /\ pc = "cleanup") =>
                    /\ trace[p + 1].ev = "suite_err"
                    /\ ToSet(Freed(a)) \cup ToSet(cleanupQ) = ToSet(Registered(a))
              /\ PastSuite(a) => ToSet(Freed(a)) = ToSet(Registered(a))

\* C3 witness: the start of the second service of a suite's second test failed,
\* and cleanup() has freed the five resources of the ledger.
C3_Witness ==
    /\ pc = "suite_loop"
    /\ \E p \in Positions :
          /\ trace[p].ev = "svc_start"
          /\ ~trace[p].ok
          /\ trace[p].svc = 2
          /\ PosIn(suites[AppOfTest(trace[p].test)], trace[p].test) = 2
          /\ Len(Freed(AppOfTest(trace[p].test))) = 5

\* C4: for a test declared with the ignore flag the runner issues no
\* provisioning call, and once it is past the test it has emitted exactly one
\* outcome for it, Ignored.
C4_IgnoredNotProvisioned ==
    \A t \in 1..Len(decls) :
       decls[t].ignore =>
          /\ \A q \in Positions : IsProvision(trace[q]) => trace[q].test # t
          /\ \A q \in Positions : trace[q].ev = "spawn" => trace[q].test # t
          /\ \A q \in Positions :
                (trace[q].ev = "emit" /\ trace[q].test = t)
                => trace[q].res = ignore(t)
          /\ PastSuite(AppOfTest(t)) =>
                Cardinality({q \in Positions :
                                trace[q].ev = "emit" /\ trace[q].test = t}) = 1

\* C5: a test unit that panics with message M gets exactly one outcome,
\* Fail(M), or Fail of the fixed text when the payload is no string; the panic
\* is no error of the suite, whose next test is provisioned as after any test
\* and spawned once its environment is built.
C5_FaultBecomesFail ==
    \A p \in Positions :
       (trace[p].ev = "join" /\ trace[p].join.kind = "Panic") =>
          LET t == trace[p].test
              a == AppOfTest(t)
              k == PosIn(suites[a], t)
              j == trace[p].join
              m == IF j.payload \in {"str", "String"}
                   THEN j.msg
                   ELSE "task panicked with no message"
          IN  /\ p < Len(trace)
              /\ trace[p + 1].ev = "emit"
              /\ trace[p + 1].res = [name |-> t, outcome |-> "Fail", output |-> m]
              /\ Cardinality({q \in Positions :
                                 trace[q].ev = "emit" /\ trace[q].test = t}) = 1
              /\ (InSuite(a) /\ suiteResult = "Err") =>
                    \E q \in Positions :
                       q > p /\ IsProvision(trace[q]) /\ ~trace[q].ok
              /\ k < Len(suites[a]) =>
                    LET n == suites[a][k + 1]
                    IN  /\ \/ InSuite(a) /\ pc = "test_loop" /\ testIdx = k + 1
                           \/ \E q \in Positions :
                                 q > p /\ trace[q].ev = "net_create" /\ trace[q].test = n
                        /\ (\A s \in 0..Len(ServicesOf(a)) :
                               \E q \in Positions :
                                  /\ trace[q].ev = IF s = 0 THEN "net_create"
                                                           ELSE "svc_start"
                                  /\ trace[q].ok
                                  /\ trace[q].test = n
                                  /\ trace[q].svc = s)
                           => \/ InSuite(a) /\ pc = "services" /\ testIdx = k + 1
                              \/ \E q \in Positions :
                                    trace[q].ev = "spawn" /\ trace[q].test = n

\* C5 witness: the first test of a suite panicked with a &str, its Fail outcome
\* holds the message, and the unit of the suite's second test was spawned.
C5_Witness ==
    \E p \in Positions :
       /\ trace[p].ev = "join"
       /\ trace[p].join = [kind |-> "Panic", payload |-> "str", msg |-> "boom"]
       /\ trace[p + 1].res.output = "boom"
       /\ PosIn(suites[AppOfTest(trace[p].test)], trace[p].test) = 1
       /\ trace[Len(trace)].ev = "spawn"
       /\ AppOfTest(trace[Len(trace)].test) = AppOfTest(trace[p].test)
       /\ trace[Len(trace)].test # trace[p].test

\* The declarations that name an application not handed to Octopod::init.
UnknownDecls == {i \in 1..Len(decls) : decls[i].app \notin apps}

FirstUnknown == CHOOSE i \in UnknownDecls : \A j \in UnknownDecls : i <= j

\* C6: when a declaration names an application that was not supplied, init
\* never gets past that declaration and returns the error naming the
\* application and the test, before any backend interaction (the driver is not
\* made, nothing is created); when every declaration names a supplied
\* application, init returns no such error.
C6_UnknownAppRejected ==
    /\ UnknownDecls # {} =>
          /\ pc \in {"start", "decls", "init_err"}
          /\ trace = << >>
          /\ created = {}
          /\ pc = "decls" => declIdx <= FirstUnknown
          /\ pc = "init_err" =>
                initErr = [kind |-> "unknown_app",
                           app |-> decls[FirstUnknown].app,
                           test |-> FirstUnknown]
    /\ UnknownDecls = {} => initErr.kind # "unknown_app"

\* C6 witness: init returned the error for the second declaration, after it
\* had pushed the first to its suite.
C6_Witness ==
    /\ pc = "init_err"
    /\ initErr.kind = "unknown_app"
    /\ initErr.test = 2
    /\ suites[decls[1].app] = << 1 >>
    /\ trace = << >>

\* The tests of application a are all declared without the ignore flag, every
\* provisioning call made for them succeeded and every unit of them returned.
AllWentWell(a) ==
    /\ \A i \in 1..Len(suites[a]) : ~decls[suites[a][i]].ignore
    /\ \A q \in Positions :
          (IsTestEv(trace[q]) /\ AppOfTest(trace[q].test) = a) => trace[q].ok

\* The results emitted for the tests of application a, in order.
EmittedOf(a) ==
    LET evs == SelectSeq(trace, LAMBDA e : e.ev = "emit" /\ AppOfTest(e.test) = a)
    IN  [i \in 1..Len(evs) |-> evs[i].res]

\* C7: a suite of N tests, none ignored, whose provisioning calls all succeeded
\* and whose units all returned, has emitted N outcomes when it returns, Pass
\* for each test in order, and it returns Ok(()).
C7_AllPass ==
    (pc = "suite_ret" /\ AllWentWell(CurApp)) =>
       /\ suiteResult = "Ok"
       /\ Len(EmittedOf(CurApp)) = Len(CurTests)
       /\ \A i \in 1..Len(CurTests) :
             EmittedOf(CurApp)[i] =
                [name |-> CurTests[i], outcome |-> "Pass", output |-> ""]

\* C7 witness: a suite of two tests on the application with services returns
\* after both passed.
C7_Witness ==
    /\ pc = "suite_ret"
    /\ AllWentWell(CurApp)
    /\ Len(CurTests) = 2
    /\ Len(CurServices) >= 2
    /\ Len(EmittedOf(CurApp)) = 2

\* C8: the value run() returns tells whether the tests passed: it is the
\* success value exactly when no test got a Fail outcome.
C8_RunReportsFailure ==
    pc = "done" =>
       (runResult = "Ok" <=> \A q \in Positions : trace[q].res.outcome # "Fail")

\* C9: the unit of a test is spawned only after the health route of every
\* service of its application that has a health-check target returned success.
C9_HealthBeforeTest ==
    \A p \in Positions :
       trace[p].ev = "spawn" =>
          \A s \in 1..Len(ServicesOf(AppOfTest(trace[p].test))) :
             ServicesOf(AppOfTest(trace[p].test))[s].health =>
                \E q \in 1..(p - 1) :
                   /\ trace[q].ev = "health_ok"
                   /\ trace[q].test = trace[p].test
                   /\ trace[q].svc = s

IsKept(r) == r.outcome \in {"Fail", "Ignore"}

\* C10: after any sequence of emit calls the retained results are, in emission
\* order, the Fail and Ignored results emitted under the default setting, and
\* all the results emitted under log_all.
C10_Retention ==
    /\ ~log_all => results = SelectSeq(Emitted, IsKept)
    /\ log_all => results = Emitted

\* C10 witness: under the default setting a Pass, a Fail and an Ignored result
\* were emitted, in that order, and the last two are retained.
C10_Witness ==
    /\ ~log_all
    /\ Len(Emitted) = 3
    /\ Emitted[1].outcome = "Pass"
    /\ Emitted[2].outcome = "Fail"
    /\ Emitted[3].outcome = "Ignore"
    /\ results = << Emitted[2], Emitted[3] >>

\* The number of results of outcome o among the results emitted.
EmittedCount(o) == Cardinality({p \in Positions : trace[p].ev = "emit" /\ trace[p].res.outcome = o})

\* C11: when the reporter is finalised, it has printed a "test result:" line
\* whose passed, ignored and failed counts are the numbers of Pass, Ignore and
\* Fail results emitted, whatever was emitted and whatever the retention setting.
C11_SummaryCounts ==
    pc = "dropped" =>
        \E i \in 1..Len(printed) :
            /\ printed[i].line = "test_result"
            /\ printed[i].passed = EmittedCount("Pass")
            /\ printed[i].ignored = EmittedCount("Ignore")
            /\ printed[i].failed = EmittedCount("Fail")

\* C12: a run that emitted a Fail result has printed no "test result:" line of
\* status ok when Octopod::run has returned and the reporter is finalised.
C12_OkOnlyWithoutFailure ==
    (pc = "done" /\ EmittedCount("Fail") > 0) =>
        \A i \in 1..Len(printed) :
            printed[i].line = "test_result" => printed[i].status # "ok"

\* C13: the colours of two log lines are equal when their names are equal and
\* differ when their names differ.
C13_DistinctColors ==
    pc = "displayed" =>
        /\ names[1] = names[2] => colors[1] = colors[2]
        /\ names[1] # names[2] => colors[1] # colors[2]

\* C14: a resource the backend created is in the ledger before the next
\* fallible backend call is made: when the suite returns, after a start call
\* that failed as after anything else, every resource created for it is in its
\* ledger, and when the run is over every resource ever created has had its
\* teardown invoked.
C14_RegisteredOnCreation ==
    /\ pc = "suite_ret" =>
          \A r \in created : AppOfTest(r.test) = CurApp => r \in ToSet(resources)
    /\ pc = "done" =>
          \A r \in created :
              \E p \in Positions : trace[p].ev = "free" /\ ResOfEv(trace[p]) = r

\* A sequence that holds nothing twice.
NoRepeat(s) == \A i, j \in 1..Len(s) : s[i] = s[j] => i = j

\* C15: the ledger of a suite is rolled back once, at the end of the suite:
\* while a test of the suite is provisioned, runs or is still to run, and until
\* TestSuite::run has returned, no teardown of the suite was invoked; while
\* cleanup() runs, the resource whose teardown was just invoked, failed or not,
\* is not left in what is still to free, so that it is not retried; and when
\* cleanup() has returned each registered resource had its teardown invoked
\* exactly once.
C15_RollbackOnceAtSuiteEnd ==
    /\ pc \in {"test_loop", "services", "svc_start", "select", "suite_ret"} =>
          /\ cleanupQ = << >>
          /\ \A p \in Positions :
                trace[p].ev = "free" => AppOfTest(trace[p].test) # CurApp
    /\ (/\ pc = "cleanup"
        /\ trace # << >>
        /\ trace[Len(trace)].ev = "free"
        /\ AppOfTest(trace[Len(trace)].test) = CurApp) =>
          \A i \in 1..Len(cleanupQ) : cleanupQ[i] # ResOfEv(trace[Len(trace)])
    /\ (pc = "suite_loop" /\ suiteIdx > 1) =>
          LET F == Freed(LastApp)
          IN  /\ NoRepeat(F)
              /\ Len(F) = Len(Registered(LastApp))

\* C15 witness: cleanup() has walked the ledger of a suite of two tests after
\* both had their outcome, one teardown failed, and six teardowns were invoked.
C15_Witness ==
    /\ pc = "cleanup"
    /\ cleanupQ = << >>
    /\ reported = 1
    /\ Len(Freed(CurApp)) = 6
    /\ Len(EmittedOf(CurApp)) = 2

\* The resources the backend created for the suite of application a, in the
\* order of their creation.
CreatedIn(a) ==
    LET evs == SelectSeq(trace, LAMBDA e : /\ e.ev \in {"net_create", "svc_create"}
                                            /\ e.ok
                                            /\ AppOfTest(e.test) = a)
    IN  [i \in 1..Len(evs) |-> ResOfEv(evs[i])]

\* C16: between the backend calls of a suite, and when the suite returns, its
\* ledger is the sequence of the resources created so far for it, in the order
\* of their creation: per test the network, then the services as declared.
C16_LedgerIsCreationOrder ==
    pc \in {"test_loop", "services", "select", "suite_ret"} =>
        resources = CreatedIn(CurApp)

\* C17: the unit of a test is spawned after its whole environment was built:
\* when the unit was spawned, the calls just before the spawn are the creation
\* of the network of the test and, for each service of the application in
\* declared order, its creation and its start, all successful, nothing of the
\* test precedes them, and the App the unit got resolves every configured
\* service name; and when a provisioning call failed and ended the suite, no
\* unit was spawned for the test.
C17_ProvisionBeforeUnit ==
    /\ pc = "select" =>
          LET p == Len(trace)
              s == Len(CurServices)
              b == p - 2 * s - 1
          IN  /\ trace[p] = Ev("spawn", CurTest, 0, TRUE)
              /\ b >= 1
              /\ trace[b] = Ev("net_create", CurTest, 0, TRUE)
              /\ \A k \in 1..s :
                    /\ trace[b + 2 * k - 1] = Ev("svc_create", CurTest, k, TRUE)
                    /\ trace[b + 2 * k] = Ev("svc_start", CurTest, k, TRUE)
              /\ \A q \in 1..(b - 1) : trace[q].test # CurTest
              /\ appServices = {CurServices[k].name : k \in 1..s}
    /\ (pc = "suite_ret" /\ suiteResult = "Err") =>
          /\ unit.st = "none"
          /\ \A q \in Positions :
                ~(trace[q].ev = "spawn" /\ trace[q].test = CurTest)

\* C17 witness: the unit of the second test of an application of two or more
\* services runs, on an App that holds all of them.
C17_Witness ==
    /\ pc = "select"
    /\ unit.st = "running"
    /\ testIdx = 2
    /\ Len(CurServices) >= 2
    /\ Cardinality(appServices) = Len(CurServices)

\* C18: the tests of a suite run one at a time, in the order in which their
\* declarations were discovered: Octopod::init keeps the tests of a suite in
\* that order; between two tests of a suite the outcomes emitted for it are
\* those of its tests so far, one each, in order, the last events being the
\* spawn, the join and the outcome of the test just run; and the event before
\* the creation of the network of a test that is not the first of its suite is
\* the emission of the outcome of the test before it.
C18_OneAtATimeInOrder ==
    /\ pc \in {"decls", "built"} =>
          \A a \in DOMAIN suites :
              \A i, j \in 1..Len(suites[a]) : i < j => suites[a][i] < suites[a][j]
    /\ pc = "test_loop" =>
          LET E == EmittedOf(CurApp)
              n == Len(trace)
          IN  /\ Len(E) = testIdx - 1
              /\ \A i \in 1..Len(E) : E[i].name = CurTests[i]
              /\ testIdx > 1 =>
                    /\ trace[n].ev = "emit"
                    /\ trace[n].test = CurTests[testIdx - 1]
                    /\ trace[n - 1].ev = "join"
                    /\ trace[n - 1].test = trace[n].test
                    /\ trace[n - 2].ev = "spawn"
                    /\ trace[n - 2].test = trace[n].test
    /\ (trace # << >> /\ trace[Len(trace)].ev = "net_create") =>
          LET n == Len(trace)
              ts == suites[AppOfTest(trace[n].test)]
              i == PosIn(ts, trace[n].test)
          IN  i > 1 => /\ trace[n - 1].ev = "emit"
                       /\ trace[n - 1].test = ts[i - 1]

\* C18 witness: a suite of two tests has emitted both outcomes, the first of
\* them a failure.
C18_Witness ==
    /\ pc = "test_loop"
    /\ testIdx = 3
    /\ Len(EmittedOf(CurApp)) = 2
    /\ EmittedOf(CurApp)[1].outcome = "Fail"
    /\ EmittedOf(CurApp)[2].name = CurTests[2]

\* The lines of service k in the buffer buf, in order.
LinesOf(buf, k) == SelectSeq(buf, LAMBDA l : l.name = k)

\* The lines of service k in buf are the first lines its log stream yielded, in
\* order, each once, and the log task has read at least that many chunks.
IsStreamPrefix(buf, k) ==
    LET L == LinesOf(buf, k)
    IN  /\ Len(L) <= stream[k].n
        /\ \A i \in 1..Len(L) : L[i] = LogLine(k, i)

\* C19: the log buffer of a test, while it is filled and once it is attached
\* to the outcome, holds for each service a prefix of the lines the service
\* produced, in order, without gap or repetition, however the log tasks, the
\* unit and the runner interleave (and while the runner holds the log stream
\* the lines queued for a service are the ones that follow those in the buffer);
\* and a buffer attached to an outcome never changes, so that a line that
\* arrives after the runner observed the completion of the unit is not in it.
C19_PerServiceOrder ==
    /\ [](\A k \in DOMAIN stream :
            /\ IsStreamPrefix(logs, k)
            /\ \A i \in 1..Len(attached) : IsStreamPrefix(attached[i].logs, k)
            /\ pc = "select" =>
                  /\ Len(LinesOf(logs, k)) + Len(chan[k]) = stream[k].n
                  /\ \A j \in 1..Len(chan[k]) :
                        chan[k][j] = LogLine(k, Len(LinesOf(logs, k)) + j))
    /\ [][/\ Len(attached') >= Len(attached)
          /\ \A i \in 1..Len(attached) : attached'[i] = attached[i]]_vars

\* C19 witness: the outcome of a test holds the two lines service 1 produced,
\* in order, and not the line that the log task of service 2 read after the
\* runner had observed the completion of the unit.
C19_Witness ==
    /\ pc # "select"
    /\ Len(attached) = 1
    /\ attached[1].logs = << LogLine(1, 1), LogLine(1, 2) >>
    /\ stream[2] = [n |-> 1, open |-> FALSE]

C21_SuitesOneAfterAnother ==
    /\ pc \in {"test_loop", "services", "svc_start", "select", "suite_ret"} =>
          \A i \in 1..Len(resources) : AppOfTest(resources[i].test) = CurApp
    /\ (/\ pc \in {"services", "suite_ret"}
        /\ testIdx = 1
        /\ trace # << >>
        /\ trace[Len(trace)].ev = "net_create") =>
          /\ AppOfTest(trace[Len(trace)].test) = CurApp
          /\ cleanupQ = << >>
          /\ \A i \in 1..(suiteIdx - 1) :
                LET R == Registered(suiteOrder[i])
                    F == Freed(suiteOrder[i])
                IN  /\ Len(F) = Len(R)
                    /\ ToSet(F) = ToSet(R)
    /\ pc = "done" =>
          \A i \in 1..Len(suiteOrder) :
              LET ts == suites[suiteOrder[i]]
              IN  ts # << >> =>
                     \E p \in Positions :
                         trace[p].ev = "net_create" /\ trace[p].test = ts[1]

\* C21 witness: the first suite was aborted by a provisioning error after it
\* had registered a resource, cleanup() freed it, and the unit of a test of the
\* second suite runs.
C21_Witness ==
    /\ pc = "select"
    /\ suiteIdx = 2
    /\ \E p \in Positions : trace[p].ev = "suite_err"
    /\ Len(Freed(suiteOrder[1])) >= 1
    /\ resources # << >>

\* The events ev of test t in the trace.
CountOf(ev, t) ==
    Cardinality({p \in Positions : trace[p].ev = ev /\ trace[p].test = t})

\* C22: under fair scheduling, with backend calls that return and units that
\* end, run() on an engine that init built returns; when it has returned, every test whose unit was spawned
\* got exactly one outcome and no other test got one, and every resource a
\* suite registered had its teardown invoked once; and while the unit of a test
\* runs and no log line is pending (the log streams ended, or the application
\* has no service) the runner has no step to take: it waits for the unit, it
\* neither goes round its loop nor leaves it.
C22_RunTerminates ==
    /\ (pc = "built") ~> (pc = "done")
    /\ [](pc = "done" =>
            /\ runResult = "Ok"
            /\ \A t \in 1..Len(decls) :
                  /\ CountOf("spawn", t) <= 1
                  /\ CountOf("emit", t) = CountOf("spawn", t)
            /\ \A i \in 1..Len(suiteOrder) :
                  LET R == Registered(suiteOrder[i])
                      F == Freed(suiteOrder[i])
                  IN  /\ Len(F) = Len(R)
                      /\ ToSet(F) = ToSet(R))
    /\ []((/\ pc = "select"
           /\ unit.st = "running"
           /\ \A k \in DOMAIN chan : chan[k] = << >>) =>
             ~ENABLED (SelectUnit \/ SelectLog))

\* C22 witness: run() has returned after a test of the application with
\* services whose log streams all ended without a line: the test got its
\* outcome, with an empty buffer, and its network and services were freed.
C22_Witness ==
    /\ pc = "done"
    /\ DOMAIN stream # {}
    /\ \A k \in DOMAIN stream : stream[k] = [n |-> 0, open |-> FALSE]
    /\ Len(attached) = 1
    /\ attached[1].logs = << >>
    /\ CountOf("emit", 1) = 1
    /\ Len(Freed("a1")) = 1 + MaxServices

====
